---- MODULE Spec2Model ----
(***************************************************************************)
(* AbstractFileBasedSpec.schema(): the schema-rewriting pipeline of        *)
(* airbyte_cdk/sources/file_based/config/abstract_file_based_spec.py.       *)
(*                                                                         *)
(* Python dicts and lists are mutable objects that are shared by            *)
(* reference, so the model keeps an explicit heap. An address is a         *)
(* position in the sequence `heap`; a node is a dict or a list; a value    *)
(* stored in a node is a string, a list of strings, or a reference to      *)
(* another node. Every step of schema() is one action.                     *)
(***************************************************************************)
EXTENDS Integers, Sequences, FiniteSets, TLC

VARIABLES heap, schema, transformed_schema, result, pc, err

vars == <<heap, schema, transformed_schema, result, pc, err>>

(* Longest anyOf / oneOf list of format alternatives the generator emits. *)
MaxAlts == 2

-----------------------------------------------------------------------------
(* An address names an object by where it was allocated: the variable or   *)
(* expression that created the tree it belongs to, followed by the path    *)
(* from that tree's root. Null is the empty address.                       *)

Null == <<>>

(* Values held in a node.                                                  *)

Str(x) == [k |-> "str", s |-> <<x>>, a |-> Null]

Strs(q) == [k |-> "strs", s |-> q, a |-> Null]

Ref(n) == [k |-> "ref", s |-> <<>>, a |-> n]

(* Heap nodes: a dict (key -> value) or a list (sequence of values).       *)

NewDict(f) == [k |-> "dict", d |-> f, l |-> <<>>]

NewList(q) == [k |-> "list", d |-> <<>>, l |-> q]

(* Trees as plain values: the result of reading a tree off the heap, and   *)
(* the form in which the schema generator's output is enumerated.          *)

PStr(x) == [k |-> "str", s |-> <<x>>, d |-> <<>>, l |-> <<>>]

PStrs(q) == [k |-> "strs", s |-> q, d |-> <<>>, l |-> <<>>]

PDict(f) == [k |-> "dict", s |-> <<>>, d |-> f, l |-> <<>>]

PList(q) == [k |-> "list", s |-> <<>>, d |-> <<>>, l |-> q]

NoKeys == [x \in {} |-> PStr("")]

IsNode(p) == p.k \in {"dict", "list"}

-----------------------------------------------------------------------------
(* Dict primitives.                                                        *)

Has(h, a, key) == key \in DOMAIN h[a].d

Without(f, key) == [x \in (DOMAIN f) \ {key} |-> f[x]]

(* d[key] = v *)
SetItem(h, a, key, v) == [h EXCEPT ![a] = NewDict((key :> v) @@ h[a].d)]

(* del d[key] *)
DelItem(h, a, key) == [h EXCEPT ![a] = NewDict(Without(h[a].d, key))]

(* A new object at address a.                                              *)
Alloc(h, a, node) == (a :> node) @@ h

(* Keys are visited in one fixed order.                                    *)
RECURSIVE SetToSeq(_)
SetToSeq(S) ==
    IF S = {} THEN <<>>
    ELSE LET x == CHOOSE y \in S : TRUE IN <<x>> \o SetToSeq(S \ {x})

(* Addresses a node refers to directly.                                    *)
Children(h, a) ==
    IF h[a].k = "dict"
    THEN {h[a].d[key].a : key \in {x \in DOMAIN h[a].d : h[a].d[x].k = "ref"}}
    ELSE {h[a].l[i].a : i \in {j \in DOMAIN h[a].l : h[a].l[j].k = "ref"}}

RECURSIVE ReachFrom(_, _, _)
ReachFrom(h, frontier, seen) ==
    IF frontier = {} THEN seen
    ELSE LET next == (UNION {Children(h, a) : a \in frontier}) \ seen
         IN ReachFrom(h, next, seen \cup next)

(* Every node reachable from address a, a included.                        *)
Reach(h, a) == IF a = Null THEN {} ELSE ReachFrom(h, {a}, {a})

(* The tree below value v, read off the heap.                              *)
RECURSIVE Unfold(_, _)
Unfold(h, v) ==
    IF v.k = "ref"
    THEN LET n == h[v.a] IN
         IF n.k = "dict"
         THEN PDict([key \in DOMAIN n.d |-> Unfold(h, n.d[key])])
         ELSE PList([i \in DOMAIN n.l |-> Unfold(h, n.l[i])])
    ELSE [k |-> v.k, s |-> v.s, d |-> <<>>, l |-> <<>>]

Tree(h, a) == Unfold(h, Ref(a))

(* Paths (keys, list positions written as strings) to the dicts and lists  *)
(* of a plain tree.                                                        *)
RECURSIVE NodePaths(_)
NodePaths(p) ==
    IF p.k = "dict"
    THEN {<<>>} \cup UNION {{<<key>> \o q : q \in NodePaths(p.d[key])} :
                               key \in {x \in DOMAIN p.d : IsNode(p.d[x])}}
    ELSE IF p.k = "list"
    THEN {<<>>} \cup UNION {{<<ToString(i)>> \o q : q \in NodePaths(p.l[i])} :
                               i \in {j \in DOMAIN p.l : IsNode(p.l[j])}}
    ELSE {}

RECURSIVE Subtree(_, _)
Subtree(p, path) ==
    IF path = <<>> THEN p
    ELSE IF p.k = "dict" THEN Subtree(p.d[Head(path)], Tail(path))
    ELSE Subtree(p.l[CHOOSE i \in DOMAIN p.l : ToString(i) = Head(path)], Tail(path))

(* The objects of a plain tree, allocated under the address `base`.        *)
Build(p, base) ==
    LET val(c, a) == IF IsNode(c) THEN Ref(a) ELSE [k |-> c.k, s |-> c.s, a |-> Null]
        node(q) == LET t == Subtree(p, q) IN
                   IF t.k = "dict"
                   THEN NewDict([key \in DOMAIN t.d |-> val(t.d[key], base \o q \o <<key>>)])
                   ELSE NewList([i \in DOMAIN t.l |-> val(t.l[i], base \o q \o <<ToString(i)>>)])
    IN [a \in {base \o q : q \in NodePaths(p)} |->
           node(SubSeq(a, Len(base) + 1, Len(a)))]

-----------------------------------------------------------------------------
(* The raw schema trees the schema generator (super().schema()) can hand   *)
(* to the pipeline. The pipeline touches a fixed set of paths; the trees   *)
(* vary what lies on those paths.                                          *)

EnumLists == {<<"a", "b">>, <<"c">>}

Titles == {"X", "Y"}

T1 == PDict([type |-> PStr("string")])

T2 == PDict([type |-> PStr("array")])

T3 == PDict([type |-> PStr("object")])

PlainField == PDict([title |-> PStr("Delimiter"), type |-> PStr("string")])

(* {"allOf": [{"enum": E}, {"title": X}]} *)
EnumField(E, X) ==
    PDict([allOf |-> PList(<<PDict([enum |-> PStrs(E)]), PDict([title |-> PStr(X)])>>)])

(* pydantic's form after reference expansion: descriptive keys next to allOf. *)
EnumFieldSib ==
    PDict([title |-> PStr("Quoting"), default |-> PStr("a"),
           allOf |-> PList(<<PDict([title |-> PStr("Q"), enum |-> PStrs(<<"a", "b">>)])>>)])

(* allOf whose first element has no enum. *)
NoEnumAllOf ==
    PDict([allOf |-> PList(<<PDict([title |-> PStr("X")]), PDict([enum |-> PStrs(<<"c">>)])>>)])

EmptyAllOf == PDict([title |-> PStr("Bad"), allOf |-> PList(<<>>)])

Hoisted == PDict([title |-> PStr("Quoting"), enum |-> PStrs(<<"a", "b">>)])

RefEnumField ==
    PDict([title |-> PStr("Quoting"),
           allOf |-> PList(<<PDict("$ref" :> PStr("#/definitions/QuotingBehavior"))>>)])

Alt(props) == PDict([title |-> PStr("Alt"), type |-> PStr("object"), properties |-> PDict(props)])

Alternatives ==
    {Alt([delimiter |-> PlainField])}
    \cup {Alt([quoting |-> EnumField(E, X)]) : E \in EnumLists, X \in Titles}
    \cup {Alt([quoting |-> EnumFieldSib, delimiter |-> PlainField]),
          Alt([codec |-> NoEnumAllOf]),
          Alt([bad |-> EmptyAllOf]),
          Alt([quoting |-> Hoisted]),
          PDict([title |-> PStr("NoProps"), type |-> PStr("object")])}

RewrittenAlternatives == {Alt([delimiter |-> PlainField]), Alt([quoting |-> Hoisted])}

SeqsUpTo(S, n) == UNION {[1..m -> S] : m \in 0..n}

CsvFormat ==
    PDict([title |-> PStr("CsvFormat"), type |-> PStr("object"),
           properties |-> PDict([quoting |-> EnumFieldSib, delimiter |-> PlainField])])

(* The value schema of the format mapping (additionalProperties).          *)
AdditionalProperties ==
    {PDict([description |-> PStr("variant"), anyOf |-> PList(q)]) :
        q \in SeqsUpTo(Alternatives, MaxAlts)}
    \cup {PDict([description |-> PStr("variant"), oneOf |-> PList(q)]) :
        q \in SeqsUpTo(RewrittenAlternatives, MaxAlts)}
    \cup {PDict([anyOf |-> PList(<<Alt([quoting |-> EnumField(<<"c">>, "X")])>>),
                 oneOf |-> PList(<<Alt([delimiter |-> PlainField])>>)]),
          CsvFormat}

FormatOf(ap) ==
    PDict([title |-> PStr("Format"), type |-> PStr("object"), additionalProperties |-> ap])

FormatNoUnion == PDict([title |-> PStr("Format"), type |-> PStr("object")])

FormatRequiresFiletype ==
    PDict([title |-> PStr("Format"), type |-> PStr("object"),
           required |-> PStrs(<<"filetype">>)])

Formats ==
    {FormatOf(ap) : ap \in AdditionalProperties}
    \cup {FormatNoUnion, FormatRequiresFiletype,
          PDict([type |-> PStr("object"), required |-> PStrs(<<"filetype">>),
                 additionalProperties |->
                     PDict([anyOf |-> PList(<<Alt([delimiter |-> PlainField])>>)])])}

FewFormats ==
    {FormatNoUnion,
     FormatOf(CsvFormat),
     FormatOf(PDict([anyOf |-> PList(<<Alt([quoting |-> EnumField(<<"a", "b">>, "X")])>>)])),
     FormatOf(PDict([anyOf |-> PList(<<Alt([bad |-> EmptyAllOf])>>)]))}

UnionOk == PDict([title |-> PStr("Union"), anyOf |-> PList(<<T1, T2>>)])

UnionFields ==
    {UnionOk,
     PDict([anyOf |-> PList(<<T2, T1, T3>>)]),
     PDict([title |-> PStr("Union"), anyOf |-> PList(<<T1>>), oneOf |-> PList(<<T3>>)]),
     PDict([title |-> PStr("Union"), type |-> PStr("string")]),
     PDict([title |-> PStr("Union"), oneOf |-> PList(<<T1, T2>>)])}

NameField == PDict([title |-> PStr("Name"), type |-> PStr("string")])

(* Stream Schema Nodes: the children of properties.streams.items.properties. *)
StreamNodes ==
    {[name |-> NameField, format |-> f, primary_key |-> UnionOk, input_schema |-> UnionOk] :
        f \in Formats}
    \cup {[name |-> NameField, format |-> f, primary_key |-> p, input_schema |-> i] :
        f \in FewFormats, p \in UnionFields, i \in UnionFields}
    \cup {[name |-> NameField, format |-> f, input_schema |-> i] :
        f \in FewFormats, i \in UnionFields}
    \cup {[name |-> NameField, format |-> f, primary_key |-> p] :
        f \in FewFormats, p \in UnionFields}
    \cup {[name |-> NameField, primary_key |-> p, input_schema |-> UnionOk] :
        p \in UnionFields}

RootOf(items) ==
    PDict([title |-> PStr("Spec"), type |-> PStr("object"),
           properties |->
               PDict([start_date |-> PDict([title |-> PStr("Start Date"), type |-> PStr("string")]),
                      streams |-> PDict([title |-> PStr("Streams"), type |-> PStr("array"),
                                         items |-> items])])])

InlineTrees ==
    {RootOf(PDict([title |-> PStr("Stream"), type |-> PStr("object"), properties |-> PDict(n)])) :
        n \in StreamNodes}
    \cup {PDict([title |-> PStr("Spec"), type |-> PStr("object"), properties |-> PDict(NoKeys)]),
          RootOf(PDict([title |-> PStr("Stream"), type |-> PStr("object")]))}

(* Trees as pydantic emits them: sub-models and enums live under           *)
(* "definitions" and are pointed to by "$ref".                             *)
RefOf(name) == PDict("$ref" :> PStr(name))

Definitions(ap, pk) ==
    [FileBasedStreamConfig |->
         PDict([title |-> PStr("Stream"), type |-> PStr("object"),
                properties |-> PDict([name |-> NameField, format |-> FormatOf(ap),
                                      primary_key |-> pk, input_schema |-> UnionOk])]),
     CsvFormat |->
         PDict([title |-> PStr("CsvFormat"), type |-> PStr("object"),
                properties |-> PDict([quoting |-> RefEnumField, delimiter |-> PlainField])]),
     QuotingBehavior |->
         PDict([title |-> PStr("QuotingBehavior"), enum |-> PStrs(<<"a", "b">>)])]

RefTrees ==
    {[RootOf(RefOf("#/definitions/FileBasedStreamConfig")) EXCEPT
        !.d = ("definitions" :> PDict(Definitions(ap, pk))) @@ @] :
        ap \in {RefOf("#/definitions/CsvFormat"),
                PDict([anyOf |-> PList(<<RefOf("#/definitions/CsvFormat")>>)]),
                PDict([anyOf |-> PList(<<RefOf("#/definitions/CsvFormat"),
                                         RefOf("#/definitions/CsvFormat")>>)])},
        pk \in {UnionOk, PDict([title |-> PStr("Union"), type |-> PStr("string")])}}

RawTrees == InlineTrees \cup RefTrees

-----------------------------------------------------------------------------
(* schema = super().schema(...): the generator's cached raw tree.         *)
SuperSchema ==
    /\ pc = "init"
    /\ \E t \in RawTrees :
          /\ heap' = Build(t, <<"schema">>)
          /\ schema' = <<"schema">>
    /\ pc' = "generated"
    /\ UNCHANGED <<transformed_schema, result, err>>

(* copy.copy: a new top-level dict whose values are the source's objects.  *)
shallow_copy(h, a, new) == (new :> h[a]) @@ h

(* copy.deepcopy: every node reachable from a gets a fresh copy under the  *)
(* address `new`; references inside the copy point into the copy.          *)
deepcopy(h, a, new) ==
    LET R     == Reach(h, a)
        to(x) == new \o SubSeq(x, Len(a) + 1, Len(x))
        cp(v) == IF v.k = "ref" THEN Ref(to(v.a)) ELSE v
        node(n) == IF n.k = "dict"
                   THEN NewDict([key \in DOMAIN n.d |-> cp(n.d[key])])
                   ELSE NewList([i \in DOMAIN n.l |-> cp(n.l[i])])
    IN [x \in {to(y) : y \in R} |-> node(h[CHOOSE y \in R : to(y) = x])] @@ h

(* transformed_schema = copy.deepcopy(schema)                              *)
DeepCopy ==
    /\ pc = "generated"
    /\ heap' = deepcopy(heap, schema, <<"transformed_schema">>)
    /\ transformed_schema' = <<"transformed_schema">>
    /\ pc' = "copied"
    /\ UNCHANGED <<schema, result, err>>

-----------------------------------------------------------------------------
(* schema_helpers.expand_refs: every {"$ref": "#/definitions/N"} dict is   *)
(* replaced in place by the definition it points to, definitions first,    *)
(* and the top-level "definitions" key is dropped.                         *)

DefinitionKey ==
    ("#/definitions/FileBasedStreamConfig" :> "FileBasedStreamConfig")
    @@ ("#/definitions/CsvFormat" :> "CsvFormat")
    @@ ("#/definitions/QuotingBehavior" :> "QuotingBehavior")

IsRefDict(h, a) == h[a].k = "dict" /\ "$ref" \in DOMAIN h[a].d

RECURSIVE ExpandAll(_, _)
ExpandAll(h, root) ==
    LET defs      == h[root].d["definitions"].a
        target(a) == h[defs].d[DefinitionKey[h[a].d["$ref"].s[1]]].a
        ready     == {a \in Reach(h, root) : IsRefDict(h, a) /\ ~IsRefDict(h, target(a))}
    IN IF ready = {} THEN h
       ELSE LET a == CHOOSE x \in ready : TRUE
            IN ExpandAll([h EXCEPT ![a] =
                             NewDict(h[target(a)].d @@ Without(h[a].d, "$ref"))], root)

expand_refs(h, root) ==
    IF Has(h, root, "definitions")
    THEN DelItem(ExpandAll(h, root), root, "definitions")
    ELSE h

(* schema_helpers.expand_refs(transformed_schema)                          *)
ExpandRefs ==
    /\ pc = "copied"
    /\ heap' = expand_refs(heap, transformed_schema)
    /\ pc' = "expanded"
    /\ UNCHANGED <<schema, transformed_schema, result, err>>

-----------------------------------------------------------------------------
(* schema["properties"]["streams"]["items"]["properties"]                  *)
StreamPath == <<"properties", "streams", "items", "properties">>

(* Chained subscripts; Null when a key on the way is missing (KeyError).   *)
RECURSIVE Walk(_, _, _)
Walk(h, a, path) ==
    IF path = <<>> THEN a
    ELSE IF ~Has(h, a, Head(path)) THEN Null
    ELSE Walk(h, h[a].d[Head(path)].a, Tail(path))

Ok(h) == [h |-> h, err |-> ""]

Raise(h, e) == [h |-> h, err |-> e]

(* The enum is copied up but the allOf key is left in place.               *)
HoistFieldKeepAllOf(h, object_property) ==
    IF ~Has(h, object_property, "allOf") THEN Ok(h)
    ELSE LET allOf == h[h[object_property].d["allOf"].a].l IN
         IF Len(allOf) = 0 THEN Raise(h, "IndexError")
         ELSE IF Has(h, allOf[1].a, "enum")
         THEN Ok(SetItem(h, object_property, "enum", h[allOf[1].a].d["enum"]))
         ELSE Ok(h)

(* The allOf key is removed whether or not its first element has an enum.  *)
HoistFieldAlways(h, object_property) ==
    IF ~Has(h, object_property, "allOf") THEN Ok(h)
    ELSE LET allOf == h[h[object_property].d["allOf"].a].l IN
         IF Len(allOf) = 0 THEN Raise(h, "IndexError")
         ELSE IF Has(h, allOf[1].a, "enum")
         THEN Ok(DelItem(SetItem(h, object_property, "enum", h[allOf[1].a].d["enum"]),
                         object_property, "allOf"))
         ELSE Ok(DelItem(h, object_property, "allOf"))

(* Lines 70-73: the enum hoist on one field schema.                        *)
HoistField(h, object_property) ==
    IF ~Has(h, object_property, "allOf") THEN Ok(h)
    ELSE LET allOf == h[h[object_property].d["allOf"].a].l IN
         IF Len(allOf) = 0 THEN Raise(h, "IndexError")
         ELSE IF Has(h, allOf[1].a, "enum")
         THEN Ok(DelItem(SetItem(h, object_property, "enum", h[allOf[1].a].d["enum"]),
                         object_property, "allOf"))
         ELSE Ok(h)

(* Line 69: the loop over the keys of one alternative's properties dict.   *)
RECURSIVE HoistFields(_, _, _)
HoistFields(h, props, keys) ==
    IF keys = <<>> THEN Ok(h)
    ELSE LET r == HoistField(h, h[props].d[Head(keys)].a) IN
         IF r.err # "" THEN r ELSE HoistFields(r.h, props, Tail(keys))

(* Only the first alternative of the list is visited.                      *)
HoistFormatsFirstOnly(h, formats) ==
    IF formats = <<>> THEN Ok(h)
    ELSE LET format == Head(formats).a IN
         IF ~Has(h, format, "properties") THEN Raise(h, "KeyError")
         ELSE LET props == h[format].d["properties"].a
              IN HoistFields(h, props, SetToSeq(DOMAIN h[props].d))

(* Lines 68-73: the loop over the alternatives of the oneOf list.          *)
RECURSIVE HoistFormats(_, _)
HoistFormats(h, formats) ==
    IF formats = <<>> THEN Ok(h)
    ELSE LET format == Head(formats).a IN
         IF ~Has(h, format, "properties") THEN Raise(h, "KeyError")
         ELSE LET props == h[format].d["properties"].a
                  r     == HoistFields(h, props, SetToSeq(DOMAIN h[props].d))
              IN IF r.err # "" THEN r ELSE HoistFormats(r.h, Tail(formats))

(* An existing oneOf is kept when there is no anyOf to move.                *)
RenameFormatUnionKeep(h, ap) ==
    IF Has(h, ap, "anyOf")
    THEN SetItem(DelItem(h, ap, "anyOf"), ap, "oneOf", h[ap].d["anyOf"])
    ELSE IF Has(h, ap, "oneOf") THEN h
    ELSE SetItem(Alloc(h, <<"pop_default">>, NewList(<<>>)), ap, "oneOf",
                 Ref(<<"pop_default">>))

(* Line 67: ap["oneOf"] = ap.pop("anyOf", [])                              *)
RenameFormatUnion(h, ap) ==
    IF Has(h, ap, "anyOf")
    THEN SetItem(DelItem(h, ap, "anyOf"), ap, "oneOf", h[ap].d["anyOf"])
    ELSE SetItem(Alloc(h, <<"pop_default">>, NewList(<<>>)), ap, "oneOf",
                 Ref(<<"pop_default">>))

(* Lines 65-73 *)
RewriteFormat(h, objects_to_check) ==
    IF Has(h, objects_to_check, "additionalProperties")
    THEN LET ap == h[objects_to_check].d["additionalProperties"].a
             h1 == RenameFormatUnion(h, ap)
         IN HoistFormats(h1, h1[h1[ap].d["oneOf"].a].l)
    ELSE Ok(h)

only_primary_key == <<"primary_key">>

properties_to_change == <<"primary_key", "input_schema">>

(* pop("anyOf", []): a missing anyOf becomes an empty oneOf.               *)
RenameUnionDefault(h, node, p) ==
    IF ~Has(h, node, p) THEN Raise(h, "KeyError")
    ELSE LET f == h[node].d[p].a IN
         IF ~Has(h, f, "anyOf")
         THEN Ok(SetItem(Alloc(h, <<"pop_default", p>>, NewList(<<>>)), f, "oneOf",
                         Ref(<<"pop_default", p>>)))
         ELSE Ok(SetItem(DelItem(h, f, "anyOf"), f, "oneOf", h[f].d["anyOf"]))

(* Lines 77-79: node[p]["oneOf"] = node[p].pop("anyOf")                   *)
RenameUnion(h, node, p) ==
    IF ~Has(h, node, p) THEN Raise(h, "KeyError")
    ELSE LET f == h[node].d[p].a IN
         IF ~Has(h, f, "anyOf") THEN Raise(h, "KeyError")
         ELSE Ok(SetItem(DelItem(h, f, "anyOf"), f, "oneOf", h[f].d["anyOf"]))

(* Line 76: the loop over properties_to_change.                            *)
RECURSIVE RenameUnions(_, _, _)
RenameUnions(h, node, props) ==
    IF props = <<>> THEN Ok(h)
    ELSE LET r == RenameUnion(h, node, Head(props)) IN
         IF r.err # "" THEN r ELSE RenameUnions(r.h, node, Tail(props))

replace_enum_allOf_and_anyOf(h, root) ==
    LET node == Walk(h, root, StreamPath) IN
    IF node = Null \/ ~Has(h, node, "format") THEN Raise(h, "KeyError")
    ELSE LET r == RewriteFormat(h, h[node].d["format"].a) IN
         IF r.err # "" THEN r ELSE RenameUnions(r.h, node, properties_to_change)

(* cls.replace_enum_allOf_and_anyOf(transformed_schema)                    *)
Normalize ==
    /\ pc = "expanded"
    /\ LET r == replace_enum_allOf_and_anyOf(heap, transformed_schema) IN
       /\ heap' = r.h
       /\ err' = r.err
       /\ pc' = IF r.err = "" THEN "normalized" ELSE "failed"
    /\ UNCHANGED <<schema, transformed_schema, result>>

-----------------------------------------------------------------------------
legacy_format_not_required ==
    PDict([title |-> PStr("Legacy Format"),
           type |-> PStr("object"),
           properties |-> PDict([filetype |-> PDict([title |-> PStr("Filetype"),
                                                     type |-> PStr("string")])])])

legacy_format_options ==
    PDict([title |-> PStr("Legacy Format"),
           required |-> PStrs(<<"filetype">>),
           type |-> PStr("object"),
           properties |-> PDict([filetype |-> PDict([title |-> PStr("Filetype"),
                                                     type |-> PStr("string")])])])

(* The legacy node listed first.                                           *)
add_legacy_format_swapped(h, root) ==
    LET h1   == Build(legacy_format_options, <<"legacy_format_options">>) @@ h
        node == Walk(h1, root, StreamPath)
    IN IF node = Null \/ ~Has(h1, node, "format") THEN Raise(h1, "KeyError")
       ELSE LET csv_format_options == h1[node].d["format"]
                h2 == Alloc(h1, <<"union_format", "oneOf">>,
                            NewList(<<Ref(<<"legacy_format_options">>), csv_format_options>>))
                h3 == Alloc(h2, <<"union_format">>,
                            NewDict([oneOf |-> Ref(<<"union_format", "oneOf">>)]))
            IN Ok(SetItem(h3, node, "format", Ref(<<"union_format">>)))

add_legacy_format(h, root) ==
    LET h1   == Build(legacy_format_options, <<"legacy_format_options">>) @@ h
        node == Walk(h1, root, StreamPath)
    IN IF node = Null \/ ~Has(h1, node, "format") THEN Raise(h1, "KeyError")
       ELSE LET csv_format_options == h1[node].d["format"]
                h2 == Alloc(h1, <<"union_format", "oneOf">>,
                            NewList(<<csv_format_options, Ref(<<"legacy_format_options">>)>>))
                h3 == Alloc(h2, <<"union_format">>,
                            NewDict([oneOf |-> Ref(<<"union_format", "oneOf">>)]))
            IN Ok(SetItem(h3, node, "format", Ref(<<"union_format">>)))

(* cls.add_legacy_format(transformed_schema)                               *)
AddLegacyFormat ==
    /\ pc = "normalized"
    /\ LET r == add_legacy_format(heap, transformed_schema) IN
       /\ heap' = r.h
       /\ err' = r.err
       /\ pc' = IF r.err = "" THEN "unified" ELSE "failed"
    /\ UNCHANGED <<schema, transformed_schema, result>>

(* return transformed_schema                                               *)
Return ==
    /\ pc = "unified"
    /\ result' = transformed_schema
    /\ pc' = "returned"
    /\ UNCHANGED <<heap, schema, transformed_schema, err>>

(* The caller edits an object of the tree it was handed: it sets a key of  *)
(* a dict, empties a dict, or empties a list.                              *)
Mutate ==
    /\ pc = "returned"
    /\ \E a \in Reach(heap, result) :
          \/ /\ heap[a].k = "dict"
             /\ heap' = SetItem(heap, a, "mutated", Str("yes"))
          \/ /\ heap[a].k = "dict"
             /\ heap' = [heap EXCEPT ![a] = NewDict(<<>>)]
          \/ /\ heap[a].k = "list"
             /\ heap' = [heap EXCEPT ![a] = NewList(<<>>)]
    /\ pc' = "mutated"
    /\ UNCHANGED <<schema, transformed_schema, result, err>>

-----------------------------------------------------------------------------
Init ==
    /\ heap = <<>>
    /\ schema = Null
    /\ transformed_schema = Null
    /\ result = Null
    /\ pc = "init"
    /\ err = ""

Next ==
    \/ SuperSchema
    \/ DeepCopy
    \/ ExpandRefs
    \/ Normalize
    \/ AddLegacyFormat
    \/ Return
    \/ Mutate

Spec == Init /\ [][Next]_vars

-----------------------------------------------------------------------------
(* Places of a schema tree rooted at `root`.                               *)

FormatAt(h, root) ==
    LET node == Walk(h, root, StreamPath) IN
    IF node = Null \/ ~Has(h, node, "format") THEN Null ELSE h[node].d["format"].a

ChildAt(h, a, key) == IF a = Null \/ ~Has(h, a, key) THEN Null ELSE h[a].d[key].a

ContainerAt(h, root) == ChildAt(h, FormatAt(h, root), "additionalProperties")

Items(h, a) == IF a = Null THEN <<>> ELSE h[a].l

FieldsOf(h, alt) ==
    LET props == ChildAt(h, alt, "properties") IN
    IF props = Null THEN {} ELSE {h[props].d[key].a : key \in DOMAIN h[props].d}

RequiresFiletype(t) ==
    "required" \in DOMAIN t.d /\ \E i \in DOMAIN t.d["required"].s : t.d["required"].s[i] = "filetype"

-----------------------------------------------------------------------------
(* C1: no step of schema(), successful or failing, and no later edit of    *)
(* the returned tree changes the raw tree held in `schema` at any depth;   *)
(* the returned tree and the raw tree have no object in common.            *)
C1_InputNeverMutated ==
    /\ [][schema # Null => schema' = schema /\ Tree(heap', schema') = Tree(heap, schema)]_vars
    /\ [](result # Null => Reach(heap, result) \cap Reach(heap, schema) = {})

C1_Witness ==
    /\ pc = "mutated"
    /\ Tree(heap, schema) \in RawTrees
    /\ ContainerAt(heap, schema) # Null
    /\ Has(heap, ContainerAt(heap, schema), "anyOf")

(* C2: the unify step replaces format by {"oneOf": [F, L]} where F is the  *)
(* format schema exactly as the normalize step left it and L is the legacy *)
(* node; unify is only taken from the state normalize produced.            *)
C2_UnifyWrapsFormat ==
    [][pc' = "unified" =>
          /\ pc = "normalized"
          /\ LET before == Tree(heap, FormatAt(heap, transformed_schema))
                 after  == Tree(heap', FormatAt(heap', transformed_schema'))
             IN /\ DOMAIN after.d = {"oneOf"}
                /\ Len(after.d["oneOf"].l) = 2
                /\ after.d["oneOf"].l[1] = before
                /\ LET legacy == after.d["oneOf"].l[2] IN
                   /\ legacy.d["type"] = PStr("object")
                   /\ legacy.d["required"] = PStrs(<<"filetype">>)
                   /\ legacy.d["properties"].d["filetype"] =
                          PDict([title |-> PStr("Filetype"), type |-> PStr("string")])]_vars

C2_Witness ==
    /\ pc = "unified"
    /\ LET first == ChildAt(heap, FormatAt(heap, transformed_schema), "oneOf") IN
       LET ap == ChildAt(heap, Items(heap, first)[1].a, "additionalProperties") IN
       /\ ap # Null
       /\ Len(Items(heap, ChildAt(heap, ap, "oneOf"))) = 2

-----------------------------------------------------------------------------
(* The alternatives listed under key `key` of the format container, and    *)
(* their field schemas.                                                    *)
AltsAt(h, root, key) ==
    LET q == Items(h, ChildAt(h, ContainerAt(h, root), key)) IN {q[i].a : i \in DOMAIN q}

AltFields(h, root, key) == UNION {FieldsOf(h, alt) : alt \in AltsAt(h, root, key)}

(* The field carries allOf and the first allOf element carries enum.       *)
EnumTyped(h, f) ==
    /\ Has(h, f, "allOf")
    /\ Items(h, h[f].d["allOf"].a) # <<>>
    /\ Has(h, Items(h, h[f].d["allOf"].a)[1].a, "enum")

(* {"allOf": [{"enum": E}, {"title": X}]} *)
IsEnumWrapper(t) ==
    /\ DOMAIN t.d = {"allOf"}
    /\ Len(t.d["allOf"].l) = 2
    /\ DOMAIN t.d["allOf"].l[1].d = {"enum"}
    /\ DOMAIN t.d["allOf"].l[2].d = {"title"}

NormalizeSucceeds == pc = "expanded" /\ pc' = "normalized"

(* C4 as stated: a field {"allOf": [{"enum": E}, {"title": X}]} of a       *)
(* format alternative is {"title": X, "enum": E} after normalize.          *)
C4_Original ==
    [][NormalizeSucceeds =>
          \A f \in AltFields(heap, transformed_schema, "anyOf") :
              LET t == Tree(heap, f) IN
              IsEnumWrapper(t) =>
                  Tree(heap', f) = PDict([title |-> t.d["allOf"].l[2].d["title"],
                                          enum |-> t.d["allOf"].l[1].d["enum"]])]_vars

(* C4 amended: a field {"allOf": [{"enum": E}, {"title": X}]} of a format  *)
(* alternative is {"enum": E} after normalize: the allOf key is gone and   *)
(* the title X, which lived inside allOf, is gone with it.                 *)
C4_EnumHoist ==
    [][NormalizeSucceeds =>
          \A f \in AltFields(heap, transformed_schema, "anyOf") :
              LET t == Tree(heap, f) IN
              IsEnumWrapper(t) =>
                  Tree(heap', f) = PDict([enum |-> t.d["allOf"].l[1].d["enum"]])]_vars

C4_Witness ==
    /\ pc = "normalized"
    /\ \E f \in AltFields(heap, schema, "anyOf") :
          /\ Tree(heap, f) = EnumField(<<"a", "b">>, "X")
          /\ Tree(heap, <<"transformed_schema">> \o Tail(f)) = PDict([enum |-> PStrs(<<"a", "b">>)])

(* The format schema as normalize left it: the format node itself before   *)
(* unify, the first member of its oneOf afterwards.                        *)
NormalizedFormat(h, root) ==
    IF pc = "normalized" THEN FormatAt(h, root)
    ELSE Items(h, ChildAt(h, FormatAt(h, root), "oneOf"))[1].a

OutputAlts(h, root) ==
    LET q == Items(h, ChildAt(h, ChildAt(h, NormalizedFormat(h, root), "additionalProperties"),
                              "oneOf"))
    IN {q[i].a : i \in DOMAIN q}

(* C5: whenever the pipeline succeeds, no field of any alternative of the  *)
(* format union has an allOf whose first element carries an enum.          *)
C5_NoEnumAllOfSurvives ==
    pc \in {"normalized", "unified", "returned"} =>
        \A alt \in OutputAlts(heap, transformed_schema) :
            \A f \in FieldsOf(heap, alt) : ~EnumTyped(heap, f)

C5_Witness ==
    /\ pc = "returned"
    /\ Cardinality(OutputAlts(heap, result)) = 2
    /\ \A alt \in OutputAlts(heap, result) :
          \E f \in FieldsOf(heap, alt) : Has(heap, f, "enum") /\ ~Has(heap, f, "allOf")
    /\ \A alt \in AltsAt(heap, schema, "anyOf") :
          \E f \in FieldsOf(heap, alt) : EnumTyped(heap, f)

(* C6: on primary_key and on input_schema normalize moves the anyOf list   *)
(* to the oneOf key: same elements, same order, no anyOf left, every other *)
(* key as before.                                                          *)
C6_UnionRename ==
    [][NormalizeSucceeds =>
          \A p \in {"primary_key", "input_schema"} :
              LET f == ChildAt(heap, Walk(heap, transformed_schema, StreamPath), p) IN
              (f # Null /\ Has(heap, f, "anyOf")) =>
                  LET before == Tree(heap, f)
                      after  == Tree(heap', f)
                  IN /\ DOMAIN after.d = ((DOMAIN before.d) \ {"anyOf"}) \cup {"oneOf"}
                     /\ "anyOf" \notin DOMAIN after.d
                     /\ after.d["oneOf"] = before.d["anyOf"]
                     /\ \A key \in (DOMAIN before.d) \ {"anyOf", "oneOf"} :
                           after.d[key] = before.d[key]]_vars

C6_Witness ==
    /\ pc = "normalized"
    /\ LET node == Walk(heap, transformed_schema, StreamPath) IN
       /\ Tree(heap, heap[node].d["primary_key"].a) = PDict([oneOf |-> PList(<<T2, T1, T3>>)])
       /\ Tree(heap, heap[node].d["input_schema"].a) =
              PDict([title |-> PStr("Union"), oneOf |-> PList(<<T1>>)])

(* An expected path is missing from the tree handed to normalize.          *)
PathMissing(h, root) ==
    LET node == Walk(h, root, StreamPath) IN
    \/ node = Null
    \/ ~Has(h, node, "format")
    \/ \E p \in {"primary_key", "input_schema"} :
          ~Has(h, node, p) \/ ~Has(h, h[node].d[p].a, "anyOf")

(* C7: a tree with a missing expected path makes the pipeline fail with a  *)
(* lookup error; the failure is final and no schema is returned.           *)
C7_MissingPathFails ==
    /\ [][pc = "expanded" /\ PathMissing(heap, transformed_schema) =>
             pc' = "failed" /\ err' \in {"KeyError", "IndexError"} /\ result' = Null]_vars
    /\ [][pc = "failed" => pc' = "failed" /\ result' = Null]_vars
    /\ [](pc = "failed" => result = Null)

C7_Witness ==
    /\ pc = "failed"
    /\ err = "KeyError"
    /\ Tree(heap, schema) \in InlineTrees
    /\ LET node == Walk(heap, schema, StreamPath) IN
       /\ node # Null
       /\ Has(heap, node, "format")
       /\ Has(heap, node, "primary_key")
       /\ Has(heap, heap[node].d["primary_key"].a, "anyOf")
       /\ Has(heap, node, "input_schema")
       /\ ~Has(heap, heap[node].d["input_schema"].a, "anyOf")
       /\ ~Has(heap, heap[node].d["input_schema"].a, "oneOf")

NoUnion(h, root) ==
    /\ FormatAt(h, root) # Null
    /\ \/ ContainerAt(h, root) = Null
       \/ ~Has(h, ContainerAt(h, root), "anyOf")

(* C8 as stated: when format has no additionalProperties, or               *)
(* additionalProperties has no anyOf, normalize leaves the format subtree  *)
(* as it was.                                                              *)
C8_Original ==
    [][pc = "expanded" /\ NoUnion(heap, transformed_schema) =>
          Tree(heap', FormatAt(heap', transformed_schema')) =
              Tree(heap, FormatAt(heap, transformed_schema))]_vars

(* C8 amended: when format has no additionalProperties, normalize leaves   *)
(* the format subtree as it was; when additionalProperties is there        *)
(* without anyOf, normalize sets its oneOf to the empty list (replacing    *)
(* any oneOf it had) and leaves every other key of format as it was.       *)
C8_GatedRewrite ==
    [][pc = "expanded" /\ NoUnion(heap, transformed_schema) =>
          LET before == Tree(heap, FormatAt(heap, transformed_schema))
              after  == Tree(heap', FormatAt(heap', transformed_schema'))
          IN IF "additionalProperties" \notin DOMAIN before.d
             THEN after = before
             ELSE /\ DOMAIN after.d = DOMAIN before.d
                  /\ \A key \in (DOMAIN before.d) \ {"additionalProperties"} :
                        after.d[key] = before.d[key]
                  /\ after.d["additionalProperties"].d =
                         ("oneOf" :> PList(<<>>)) @@ before.d["additionalProperties"].d]_vars

C8_Witness ==
    /\ pc = "normalized"
    /\ ContainerAt(heap, schema) # Null
    /\ Tree(heap, ContainerAt(heap, schema)) =
           PDict([description |-> PStr("variant"),
                  oneOf |-> PList(<<Alt([delimiter |-> PlainField])>>)])
    /\ Tree(heap, ContainerAt(heap, transformed_schema)) =
           PDict([description |-> PStr("variant"), oneOf |-> PList(<<>>)])

(* C9: a field of an alternative that has no allOf, or whose first allOf   *)
(* element has no enum, is the same after normalize; an alternative with   *)
(* no enum-typed field is the same; the oneOf list is the former anyOf     *)
(* list, element for element.                                              *)
C9_UntouchedWhenAbsent ==
    [][NormalizeSucceeds /\ AltsAt(heap, transformed_schema, "anyOf") # {} =>
          /\ \A f \in AltFields(heap, transformed_schema, "anyOf") :
                ~EnumTyped(heap, f) => Tree(heap', f) = Tree(heap, f)
          /\ \A alt \in AltsAt(heap, transformed_schema, "anyOf") :
                (\A f \in FieldsOf(heap, alt) : ~EnumTyped(heap, f)) =>
                    Tree(heap', alt) = Tree(heap, alt)
          /\ Items(heap', ChildAt(heap', ContainerAt(heap', transformed_schema'), "oneOf")) =
                 Items(heap, ChildAt(heap, ContainerAt(heap, transformed_schema), "anyOf"))]_vars

C9_Witness ==
    /\ pc = "normalized"
    /\ \E alt \in OutputAlts(heap, transformed_schema) :
          Tree(heap, alt) = Alt([codec |-> NoEnumAllOf])
    /\ \E alt \in OutputAlts(heap, transformed_schema) :
          Tree(heap, alt) =
              Alt([quoting |-> PDict([title |-> PStr("Quoting"), default |-> PStr("a"),
                                      enum |-> PStrs(<<"a", "b">>)]),
                   delimiter |-> PlainField])

(* The container has been through the union rename and the enum hoist.     *)
AlreadyRewritten(h, root) ==
    /\ ContainerAt(h, root) # Null
    /\ Has(h, ContainerAt(h, root), "oneOf")
    /\ ~Has(h, ContainerAt(h, root), "anyOf")
    /\ \A f \in AltFields(h, root, "oneOf") : ~EnumTyped(h, f)

(* C10 as stated: the union rename and enum hoist applied to a container   *)
(* they have already rewritten leave it as it is.                          *)
C10_Original ==
    [][pc = "expanded" /\ AlreadyRewritten(heap, transformed_schema) =>
          Tree(heap', ContainerAt(heap', transformed_schema')) =
              Tree(heap, ContainerAt(heap, transformed_schema))]_vars

(* C10 amended: applied to a container they have already rewritten, the    *)
(* union rename and enum hoist leave every alternative A1..An and each of  *)
(* its field schemas as it is, but the container's oneOf becomes the empty *)
(* list; its other keys stay.                                              *)
C10_SecondApplication ==
    [][pc = "expanded" /\ AlreadyRewritten(heap, transformed_schema) =>
          /\ \A alt \in AltsAt(heap, transformed_schema, "oneOf") :
                Tree(heap', alt) = Tree(heap, alt)
          /\ AltsAt(heap', transformed_schema', "oneOf") = {}
          /\ Without(Tree(heap', ContainerAt(heap', transformed_schema')).d, "oneOf") =
                 Without(Tree(heap, ContainerAt(heap, transformed_schema)).d, "oneOf")]_vars

C10_Witness ==
    /\ pc \in {"normalized", "failed"}
    /\ Cardinality(AltsAt(heap, schema, "oneOf")) = 2
    /\ AlreadyRewritten(heap, schema)
    /\ AltsAt(heap, transformed_schema, "oneOf") = {}

====
